---- MODULE Spec2Model ----
(***************************************************************************)
(* Detection engine of the incident/log platform:                          *)
(*   backend/src/incidents/detection.service.ts  (handleCron, runDetection)*)
(*   backend/src/incidents/incidents.service.ts  (create)                  *)
(*   backend/src/ingestion/ingestion.service.ts  (processLog)              *)
(* Every `await` of handleCron / runDetection is one atomic store          *)
(* operation and one step here; time may pass between any two steps, and   *)
(* is observed at the instants at which a timer can fire.  A store         *)
(* operation may reject at any time (the store is unreachable).            *)
(* Times are in seconds.  handleCron keeps no state in the service object, *)
(* so an invocation slot stands for an instance's timer and its running    *)
(* invocation.                                                             *)
(***************************************************************************)
EXTENDS Integers, Sequences, FiniteSets, TLC

\* ---------------------------------------------------------------- bounds
NInst == 2          \* service instances (timers)
MaxPeriods == 1     \* timer periods explored after the first one
MaxSkew == 2        \* latest first firing of a timer after T0 (phase of the timer)
MaxIngest == 1      \* records ingested while the engine runs
MaxBuckets == 5     \* minutes of history in a drawn table
MaxBucket == 5      \* ERROR records in one minute of history
MaxBurst == 10      \* records ingested while one tick is followed
MaxSubmit == 3      \* processLog calls followed step by step
MaxSeconds == 2     \* seconds that pass while those calls are followed
MaxPending == 2     \* a maximum of pending records the service can be configured with
MaxMinutes == 33    \* minutes of the table drawn for the baseline window

\* ------------------------------------------------------- program constants
Z_SCORE_THRESHOLD == 3
MIN_ERROR_COUNT == 5
BASELINE_WINDOW_MINUTES == 30
MIN_BASELINE_BUCKETS == 5
CRON_PERIOD == 10           \* CronExpression.EVERY_10_SECONDS
LEASE_SECONDS == 9          \* now.getTime() + 9000
WINDOW_SECONDS == 60        \* Date.now() - 60 * 1000
CRITICAL_Z == 5             \* zScore > 5 ? CRITICAL : HIGH
\* (a sentinel between the two thresholds)
SentinelBelowCritical == Z_SCORE_THRESHOLD + 1
SENTINEL_Z == 999           \* cold-start score
BATCH_SIZE == 100      \* documented buffer size that triggers a flush
FLUSH_SECONDS == 5     \* documented period of the scheduled flush

T0 == 5 * WINDOW_SECONDS    \* wall-clock time of the initial state

Inst == 1..NInst
Never == 0 - 1
NULL == 0                   \* incident_id: null

\* The CronLock row (id is fixed: 'detection_service_lock').  owner is not a
\* column: it records which invocation created the row.
NoLock == [lockedAt |-> Never, expiry |-> Never, owner |-> 0]
NoStats == [n |-> 0, S |-> 0, Q |-> 0, values |-> <<>>]

VARIABLES
  clock,              \* wall-clock and database time
  horizon,            \* configuration: the last instant explored
  cronLock,           \* the CronLock row, or NoLock
  logs,               \* table Log: sequence of [ts, level, incident_id]
  incidents,          \* table Incident: sequence of rows, id = index
  pc,                 \* per invocation: the await it is about to execute
  tnow,               \* handleCron: const now (kept after the tick: timer phase)
  existingLock,       \* handleCron: const existingLock
  stats,              \* runDetection: values summarised as n, sum, sum of squares
  oneMinuteAgo,       \* runDetection: const oneMinuteAgo
  currentErrorCount,  \* runDetection: const currentErrorCount
  counted,            \* history: the records the count query matched
  seen,               \* history: the size of table Log when it was counted
  severity,           \* runDetection: const severity
  incident,           \* runDetection: const incident (its id)
  thrown,             \* runDetection rejected; handleCron rejects after finally
  outcome,            \* how the invocation's last tick ended
  lostRace,           \* history: a rival that read the same lock state created the row
  blocked,            \* history: the live row that made a tick skip, and when
  lastWrite,          \* history: last write to table Log
  rerun,              \* history: ticks begun right after an applied correlation
  ingested,           \* number of processLog calls so far
  calls               \* history: every processLog call, and how far it has come

vars == <<clock, horizon, cronLock, logs, incidents, pc, tnow, existingLock, stats,
          oneMinuteAgo, currentErrorCount, counted, seen, severity, incident, thrown,
          outcome, lostRace, blocked, lastWrite, rerun, ingested, calls>>

storeVars == <<cronLock, logs, incidents>>
localVars == <<existingLock, stats, oneMinuteAgo, currentErrorCount, counted, seen,
               severity, incident, thrown>>

\* ------------------------------------------------------------- helpers
Log(ts, level) == [ts |-> ts, level |-> level, incident_id |-> NULL]

RECURSIVE SumOver(_, _)
SumOver(f, S) ==
  IF S = {} THEN 0
  ELSE LET x == CHOOSE y \in S : TRUE IN f[x] + SumOver(f, S \ {x})

\* $queryRaw of runDetection: per-minute counts of ERROR records newer than
\* NOW() - 30 minutes, as a function minute -> count (GROUP BY yields no
\* bucket for a minute without a matching record).
BaselineRows(at) ==
  {k \in DOMAIN logs : logs[k].level = "ERROR"
                       /\ logs[k].ts > at - BASELINE_WINDOW_MINUTES * 60}

\* (a series with a bucket for every minute of the window, empty ones too)
BaselineMetrics_EveryMinute(at) ==
  LET rows == BaselineRows(at)
      mins == ((at - BASELINE_WINDOW_MINUTES * 60) \div 60)..(at \div 60)
  IN [m \in mins |-> Cardinality({k \in rows : logs[k].ts \div 60 = m})]

BaselineMetrics(at) ==
  LET rows == BaselineRows(at)
      mins == {logs[k].ts \div 60 : k \in rows}
  IN [m \in mins |-> Cardinality({k \in rows : logs[k].ts \div 60 = m})]

\* lines 104-107: values, and mean = S / n, variance = (n*Q - S*S) / n^2 kept
\* as the integers n, S, Q.
Summary(metrics) ==
  [n |-> Cardinality(DOMAIN metrics),
   S |-> SumOver(metrics, DOMAIN metrics),
   Q |-> SumOver([m \in DOMAIN metrics |-> metrics[m] * metrics[m]], DOMAIN metrics),
   values |-> metrics]

\* (the filter without its incident_id condition)
WindowFilter_AnyIncident(cutoff) ==
  {k \in DOMAIN logs : logs[k].level = "ERROR" /\ logs[k].ts >= cutoff}

\* (the filter without its level condition)
WindowFilter_AnyLevel(cutoff) ==
  {k \in DOMAIN logs : logs[k].ts >= cutoff /\ logs[k].incident_id = NULL}

\* where { level: 'ERROR', timestamp: { gte: oneMinuteAgo }, incident_id: null }
WindowFilter(cutoff) ==
  {k \in DOMAIN logs : logs[k].level = "ERROR" /\ logs[k].ts >= cutoff
                       /\ logs[k].incident_id = NULL}

\* mean, variance, stdDev and zScore are IEEE-754 doubles.  Evaluated in
\* doubles, lines 104-127 decide zScore > 3 and zScore > 5 as the exact
\* quotient does, except at the inputs <<n, S, Q, count>> below, where the
\* exact quotient is 3 and the doubles give 3.0000000000000004 (the mean ends
\* in .6 or .8 and is not representable).  The table is complete for up to 7
\* buckets of which all but one hold at most 6 records, and counts up to 11;
\* stdDev === 0 holds exactly when all values are equal.
ROUNDS_ABOVE_THRESHOLD ==
  {<<5, 14, 40, 4>>, <<5, 19, 73, 5>>, <<5, 23, 109, 7>>, <<5, 24, 116, 6>>,
   <<5, 28, 160, 8>>, <<5, 29, 169, 7>>}

\* (the standard deviation of a sample: divisor n - 1)
ZScoreAbove_SampleStdDev(st, c, k) ==
  LET D == st.n * st.Q - st.S * st.S
      num == st.n * c - st.S
  IN IF D = 0
       THEN (IF num > 0 THEN SENTINEL_Z ELSE 0) > k
       ELSE num > 0 /\ (st.n - 1) * num * num > k * k * D * st.n

\* zScore > k, for the zScore of lines 120-127:
\* stdDev = sqrt(n*Q - S*S) / n and mean = S / n.
ZScoreAbove(st, c, k) ==
  LET D == st.n * st.Q - st.S * st.S
      num == st.n * c - st.S
  IN IF D = 0
       THEN (IF num > 0 THEN SENTINEL_Z ELSE 0) > k
       ELSE /\ num > 0
            /\ \/ num * num > k * k * D
               \/ k = Z_SCORE_THRESHOLD /\ <<st.n, st.S, st.Q, c>> \in ROUNDS_ABOVE_THRESHOLD

\* (either condition taken as sufficient)
IsAnomaly_Either(st, c) == ZScoreAbove(st, c, Z_SCORE_THRESHOLD) \/ c > MIN_ERROR_COUNT

\* line 135: zScore > Z_SCORE_THRESHOLD && currentErrorCount > MIN_ERROR_COUNT
IsAnomaly(st, c) == ZScoreAbove(st, c, Z_SCORE_THRESHOLD) /\ c > MIN_ERROR_COUNT

\* (the severity cut at the alert threshold)
SeverityOf_CutAtThreshold(st, c) ==
  IF ZScoreAbove(st, c, Z_SCORE_THRESHOLD) THEN "CRITICAL" ELSE "HIGH"

\* line 141: zScore > 5 ? CRITICAL : HIGH
SeverityOf(st, c) == IF ZScoreAbove(st, c, CRITICAL_Z) THEN "CRITICAL" ELSE "HIGH"

Holding == {"baseline", "count", "mkincident", "correlate", "release"}
Running == {"baseline", "count", "mkincident", "correlate"}

\* ------------------------------------------------------------ initial state
\* Five minutes of history: one ERROR in each of three earlier minutes and a
\* burst of six straddling the last minute boundary; or an empty table.
BurstStore ==
  <<Log(70, "ERROR"), Log(130, "ERROR"), Log(190, "ERROR"),
    Log(298, "ERROR"), Log(299, "ERROR"), Log(299, "ERROR"),
    Log(300, "ERROR"), Log(300, "ERROR"), Log(300, "ERROR"),
    Log(300, "INFO")>>

\* A service without an ERROR record so far, and its first burst.
ColdBurstStore ==
  <<Log(T0, "ERROR"), Log(T0, "ERROR"), Log(T0, "ERROR"),
    Log(T0, "ERROR"), Log(T0, "ERROR"), Log(T0, "ERROR"), Log(T0, "INFO")>>

InitialStores == {BurstStore, ColdBurstStore, <<>>}

\* A table with b[m] ERROR records in minute m - 1, for m in the domain of b.
HistoryStore(b) ==
  LET Cum(m) == SumOver(b, 1..m)
      MinuteOf(k) == CHOOSE m \in DOMAIN b : Cum(m - 1) < k /\ k <= Cum(m)
  IN [k \in 1..Cum(Len(b)) |-> Log(60 * (MinuteOf(k) - 1), "ERROR")]

\* The tables drawn: MaxBuckets - 1 or MaxBuckets minutes of history with 1 to
\* MaxBucket records each (in ascending order: the statistics do not depend
\* on the order of the minutes).
HistoryStores ==
  {HistoryStore(b) : b \in
     {c \in UNION {[1..n -> 1..MaxBucket] : n \in (MaxBuckets - 1)..MaxBuckets} :
        \A m \in 1..(Len(c) - 1) : c[m] <= c[m + 1]}}

\* A row left behind by a holder that died before T0 (owner 0: no live slot).
StaleLock ==
  [lockedAt |-> T0 - 2 * CRON_PERIOD, expiry |-> T0 - 2 * CRON_PERIOD + LEASE_SECONDS,
   owner |-> 0]

Init ==
  /\ clock = T0
  /\ horizon = T0 + MaxSkew
  /\ cronLock \in {NoLock, StaleLock}
  /\ logs \in InitialStores
  /\ incidents = <<>>
  /\ pc = [i \in Inst |-> "idle"]
  /\ tnow = [i \in Inst |-> Never]
  /\ existingLock = [i \in Inst |-> NoLock]
  /\ stats = [i \in Inst |-> NoStats]
  /\ oneMinuteAgo = [i \in Inst |-> Never]
  /\ currentErrorCount = [i \in Inst |-> 0]
  /\ counted = [i \in Inst |-> {}]
  /\ seen = [i \in Inst |-> 0]
  /\ severity = [i \in Inst |-> "none"]
  /\ incident = [i \in Inst |-> NULL]
  /\ thrown = [i \in Inst |-> FALSE]
  /\ outcome = [i \in Inst |-> "none"]
  /\ lostRace = [i \in Inst |-> FALSE]
  /\ blocked = [i \in Inst |-> [row |-> NoLock, at |-> Never, delay |-> 0]]
  /\ lastWrite = "none"
  /\ rerun = {}
  /\ ingested = 0
  /\ calls = <<>>

\* ------------------------------------------------------------- the timer
\* @Cron(EVERY_10_SECONDS): the earliest timer (slot 1) first fires at T0, the
\* others within MaxSkew of it; later firings follow a whole number of periods
\* after the first.  A firing that finds
\* the slot still busy is left to another slot.
TimerDue(i) ==
  IF tnow[i] = Never THEN clock = T0 + (IF i = 1 THEN 0 ELSE MaxSkew)
  ELSE clock > tnow[i] /\ (clock - tnow[i]) % CRON_PERIOD = 0

\* The instants at which some timer can fire.
Instants ==
  {T0 + p + CRON_PERIOD * k : p \in 0..MaxSkew, k \in 0..MaxPeriods}

CanStart(i) ==
  /\ pc[i] = "idle"
  /\ IF tnow[i] = Never THEN clock <= T0 + (IF i = 1 THEN 0 ELSE MaxSkew)
     ELSE TimerDue(i)

\* The invocation returns (or rejects): its locals are gone.
Finish(i, res) ==
  /\ pc' = [pc EXCEPT ![i] = "idle"]
  /\ outcome' = [outcome EXCEPT ![i] = res]
  /\ stats' = [stats EXCEPT ![i] = NoStats]
  /\ oneMinuteAgo' = [oneMinuteAgo EXCEPT ![i] = Never]
  /\ currentErrorCount' = [currentErrorCount EXCEPT ![i] = 0]
  /\ counted' = [counted EXCEPT ![i] = {}]
  /\ seen' = [seen EXCEPT ![i] = 0]
  /\ severity' = [severity EXCEPT ![i] = "none"]
  /\ incident' = [incident EXCEPT ![i] = NULL]
  /\ thrown' = [thrown EXCEPT ![i] = FALSE]
  /\ existingLock' = [existingLock EXCEPT ![i] = NoLock]
  /\ lostRace' = [lostRace EXCEPT ![i] = FALSE]
  /\ rerun' = rerun \ {i}

Goto(i, next) == pc' = [pc EXCEPT ![i] = next]

\* (a rejection that leaves handleCron at once, as without the finally block)
Throw_NoFinally(i) ==
  /\ thrown' = [thrown EXCEPT ![i] = TRUE]
  /\ Goto(i, "idle")

\* runDetection rejects at the current await: control goes to the finally block.
Throw(i) ==
  /\ thrown' = [thrown EXCEPT ![i] = TRUE]
  /\ Goto(i, "release")

\* ---------------------------------------------------------- handleCron
\* line 28: const now = new Date()
StartTick(i) ==
  /\ CanStart(i)
  /\ tnow' = [tnow EXCEPT ![i] = clock]
  /\ Goto(i, "find")
  /\ outcome' = [outcome EXCEPT ![i] = "running"]
  /\ rerun' = IF lastWrite = "correlate" THEN rerun \cup {i} ELSE rerun \ {i}
  /\ UNCHANGED <<clock, horizon, storeVars, localVars, lostRace, blocked, lastWrite,
                 ingested, calls>>

\* (the comparison inverted)
LeaseLive_Inverted(row, now) == row.expiry < now

\* (a lease still live at the instant of its expiry)
LeaseLive_OrEqual(row, now) == row.expiry >= now

\* line 37: existingLock.expiry > now
LeaseLive(row, now) == row.expiry > now

\* lines 32-40: findUnique, then the live-lease test.  findUnique is outside
\* every try block: when it rejects, handleCron rejects.
FindLock(i) ==
  /\ pc[i] = "find"
  /\ \E up \in BOOLEAN :
     IF ~up
       THEN Finish(i, "find_rejected") /\ UNCHANGED blocked
       ELSE IF cronLock # NoLock /\ LeaseLive(cronLock, tnow[i])
         THEN /\ Finish(i, "skipped")
              /\ blocked' = [blocked EXCEPT
                   ![i] = [row |-> cronLock, at |-> tnow[i], delay |-> clock - tnow[i]]]
         ELSE /\ existingLock' = [existingLock EXCEPT ![i] = cronLock]
              /\ Goto(i, IF cronLock # NoLock THEN "delstale" ELSE "create")
              /\ UNCHANGED <<outcome, stats, oneMinuteAgo, currentErrorCount, counted, seen,
                             severity, incident, thrown, lostRace, rerun, blocked>>
  /\ UNCHANGED <<clock, horizon, storeVars, tnow, lastWrite, ingested, calls>>

\* cronLock.delete({ where: { id } }): removes whatever row carries the id;
\* rejects when there is none (or the store is down).
DeleteById(up) ==
  IF up /\ cronLock # NoLock THEN cronLock' = NoLock ELSE UNCHANGED cronLock

\* line 42: delete of the stale row, its rejection swallowed by .catch
DeleteStale(i) ==
  /\ pc[i] = "delstale"
  /\ \E up \in BOOLEAN : DeleteById(up)
  /\ Goto(i, "create")
  /\ UNCHANGED <<clock, horizon, logs, incidents, tnow, localVars, outcome, lostRace,
                 blocked, lastWrite, rerun, ingested, calls>>

\* (an upsert: the create overwrites a row that exists)
CreateSucceeds_Upsert(up) == up

\* cronLock.create: the primary key makes it reject when a row exists.
CreateSucceeds(up) == up /\ cronLock = NoLock

\* (a tick that looks the lease up again when its creation was rejected)
CreateLock_RetryOnConflict(i) ==
  /\ pc[i] = "create"
  /\ \E up \in BOOLEAN :
     IF CreateSucceeds(up)
       THEN /\ cronLock' = [lockedAt |-> tnow[i], expiry |-> tnow[i] + LEASE_SECONDS,
                            owner |-> i]
            /\ Goto(i, "baseline")
            /\ UNCHANGED <<outcome, localVars, lostRace, rerun>>
       ELSE /\ Goto(i, "find")
            /\ UNCHANGED <<cronLock, outcome, localVars, lostRace, rerun>>
  /\ UNCHANGED <<clock, horizon, logs, incidents, tnow, blocked, lastWrite, ingested, calls>>

\* lines 45-56: create the row; any rejection is taken as a lost race.
CreateLock(i) ==
  /\ pc[i] = "create"
  /\ \E up \in BOOLEAN :
     IF CreateSucceeds(up)
       THEN /\ cronLock' = [lockedAt |-> tnow[i], expiry |-> tnow[i] + LEASE_SECONDS,
                            owner |-> i]
            /\ Goto(i, "baseline")
            /\ lostRace' = [j \in Inst |->
                              IF j # i /\ pc[j] \in {"delstale", "create"}
                                 /\ existingLock[j] = existingLock[i]
                                THEN TRUE ELSE lostRace[j]]
            /\ UNCHANGED <<outcome, localVars, rerun>>
       ELSE /\ Finish(i, IF cronLock = NoLock THEN "create_rejected"
                          ELSE IF existingLock[i] = NoLock THEN "conflict"
                          ELSE "reclaim_conflict")
            /\ UNCHANGED cronLock
  /\ UNCHANGED <<clock, horizon, logs, incidents, tnow, blocked, lastWrite, ingested, calls>>

\* ---------------------------------------------------------- runDetection
\* (no warm-up guard)
WarmingUp_Never(metrics) == FALSE

\* line 96: baselineMetrics.length < MIN_BASELINE_BUCKETS
WarmingUp(metrics) == Cardinality(DOMAIN metrics) < MIN_BASELINE_BUCKETS

\* lines 83-110: the baseline query, the warm-up guard, the statistics, and
\* the cutoff of the measurement window.
Baseline(i) ==
  /\ pc[i] = "baseline"
  /\ \E up \in BOOLEAN :
     IF ~up
       THEN Throw(i) /\ UNCHANGED <<stats, oneMinuteAgo>>
       ELSE LET baselineMetrics == BaselineMetrics(clock) IN
            IF WarmingUp(baselineMetrics)
              THEN Goto(i, "release") /\ UNCHANGED <<stats, oneMinuteAgo, thrown>>
              ELSE /\ stats' = [stats EXCEPT ![i] = Summary(baselineMetrics)]
                   /\ oneMinuteAgo' = [oneMinuteAgo EXCEPT ![i] = clock - WINDOW_SECONDS]
                   /\ Goto(i, "count")
                   /\ UNCHANGED thrown
  /\ UNCHANGED <<clock, horizon, storeVars, tnow, existingLock, currentErrorCount,
                 counted, seen, severity, incident, outcome, lostRace, blocked, lastWrite,
                 rerun, ingested, calls>>

\* lines 111-141: the count, the score and the dual-threshold decision.
Count(i) ==
  /\ pc[i] = "count"
  /\ \E up \in BOOLEAN :
     IF ~up
       THEN Throw(i) /\ UNCHANGED <<currentErrorCount, counted, seen, severity>>
       ELSE LET rows == WindowFilter(oneMinuteAgo[i])
                c == Cardinality(rows) IN
            /\ counted' = [counted EXCEPT ![i] = rows]
            /\ seen' = [seen EXCEPT ![i] = Len(logs)]
            /\ currentErrorCount' = [currentErrorCount EXCEPT ![i] = c]
            /\ IF IsAnomaly(stats[i], c)
                 THEN /\ severity' = [severity EXCEPT ![i] = SeverityOf(stats[i], c)]
                      /\ Goto(i, "mkincident")
                 ELSE Goto(i, "release") /\ UNCHANGED severity
            /\ UNCHANGED thrown
  /\ UNCHANGED <<clock, horizon, storeVars, tnow, existingLock, stats, oneMinuteAgo,
                 incident, outcome, lostRace, blocked, lastWrite, rerun, ingested, calls>>

\* (an incident created as already acknowledged)
IncidentRow_Acknowledged(i) ==
  [count |-> currentErrorCount[i], severity |-> severity[i],
   status |-> "ACKNOWLEDGED", resolved_at |-> NULL, by |-> i, counted |-> counted[i], seen |-> seen[i],
   stats |-> stats[i], applied |-> FALSE]

\* lines 142-146: the row incidentsService.create inserts: the title's count,
\* the severity, status OPEN; resolved_at is not given and stays null.
IncidentRow(i) ==
  [count |-> currentErrorCount[i], severity |-> severity[i],
   status |-> "OPEN", resolved_at |-> NULL, by |-> i, counted |-> counted[i], seen |-> seen[i],
   stats |-> stats[i], applied |-> FALSE]

\* lines 142-146: incidentsService.create.  by, counted and applied are not
\* columns: they record which slot created the row, from which records and
\* baseline, and whether the tick's correlating update was executed.
CreateIncident(i) ==
  /\ pc[i] = "mkincident"
  /\ \E up \in BOOLEAN :
     IF ~up
       THEN Throw(i) /\ UNCHANGED <<incidents, incident>>
       ELSE /\ incidents' = Append(incidents, IncidentRow(i))
            /\ incident' = [incident EXCEPT ![i] = Len(incidents) + 1]
            /\ Goto(i, "correlate")
            /\ UNCHANGED thrown
  /\ UNCHANGED <<clock, horizon, cronLock, logs, tnow, existingLock, stats, oneMinuteAgo,
                 currentErrorCount, counted, seen, severity, outcome, lostRace, blocked,
                 lastWrite, rerun, ingested, calls>>

\* (the update without its incident_id condition)
Correlated_AnyIncident(cutoff, id) ==
  [k \in DOMAIN logs |->
     IF k \in WindowFilter_AnyIncident(cutoff)
       THEN [logs[k] EXCEPT !.incident_id = id] ELSE logs[k]]

\* (an update of one matching record in place of updateMany)
Correlated_OneRecord(cutoff, id) ==
  [k \in DOMAIN logs |->
     IF WindowFilter(cutoff) # {} /\ k = CHOOSE x \in WindowFilter(cutoff) : TRUE
       THEN [logs[k] EXCEPT !.incident_id = id] ELSE logs[k]]

\* (an update that also restamps the records it correlates)
Correlated_Restamped(cutoff, id) ==
  [k \in DOMAIN logs |->
     IF k \in WindowFilter(cutoff)
       THEN [logs[k] EXCEPT !.incident_id = id, !.ts = cutoff] ELSE logs[k]]

\* (the update without its timestamp condition)
Correlated_NoCutoff(cutoff, id) ==
  [k \in DOMAIN logs |->
     IF logs[k].level = "ERROR" /\ logs[k].incident_id = NULL
       THEN [logs[k] EXCEPT !.incident_id = id] ELSE logs[k]]

\* lines 151-158: log.updateMany with the filter of the count query.
Correlated(cutoff, id) ==
  [k \in DOMAIN logs |->
     IF k \in WindowFilter(cutoff) THEN [logs[k] EXCEPT !.incident_id = id] ELSE logs[k]]

Correlate(i) ==
  /\ pc[i] = "correlate"
  /\ \E up \in BOOLEAN :
     IF ~up
       THEN Throw(i) /\ UNCHANGED <<logs, incidents, lastWrite, rerun>>
       ELSE /\ logs' = Correlated(oneMinuteAgo[i], incident[i])
            /\ incidents' = [incidents EXCEPT ![incident[i]].applied = TRUE]
            /\ lastWrite' = "correlate"
            /\ rerun' = {}
            /\ Goto(i, "release")
            /\ UNCHANGED thrown
  /\ UNCHANGED <<clock, horizon, cronLock, tnow, existingLock, stats,
                 oneMinuteAgo, currentErrorCount, counted, seen, severity, incident, outcome,
                 lostRace, blocked, ingested, calls>>

\* lines 60-63: finally { delete, rejection swallowed }; then handleCron
\* returns, or rejects with what runDetection threw.
Release(i) ==
  /\ pc[i] = "release"
  /\ \E up \in BOOLEAN : DeleteById(up)
  /\ Finish(i, IF thrown[i] THEN "pass_rejected" ELSE "done")
  /\ UNCHANGED <<clock, horizon, logs, incidents, tnow, blocked, lastWrite, ingested, calls>>

\* ------------------------------------------------------------ environment
\* The process dies while it holds the lease: nothing of the tick runs again.
Crash(i) ==
  /\ pc[i] \in Holding
  /\ pc' = [pc EXCEPT ![i] = "crashed"]
  /\ outcome' = [outcome EXCEPT ![i] = "crashed"]
  /\ stats' = [stats EXCEPT ![i] = NoStats]
  /\ oneMinuteAgo' = [oneMinuteAgo EXCEPT ![i] = Never]
  /\ currentErrorCount' = [currentErrorCount EXCEPT ![i] = 0]
  /\ counted' = [counted EXCEPT ![i] = {}]
  /\ seen' = [seen EXCEPT ![i] = 0]
  /\ severity' = [severity EXCEPT ![i] = "none"]
  /\ incident' = [incident EXCEPT ![i] = NULL]
  /\ thrown' = [thrown EXCEPT ![i] = FALSE]
  /\ existingLock' = [existingLock EXCEPT ![i] = NoLock]
  /\ lostRace' = [lostRace EXCEPT ![i] = FALSE]
  /\ rerun' = rerun \ {i}
  /\ UNCHANGED <<clock, horizon, storeVars, tnow, blocked, lastWrite, ingested, calls>>

Tick ==
  /\ \A i \in Inst : ~(pc[i] = "idle" /\ TimerDue(i))
  /\ \E t \in Instants :
       /\ t > clock
       /\ t <= horizon
       /\ \A u \in Instants : u > clock => t <= u
       /\ clock' = t
  /\ UNCHANGED <<horizon, storeVars, pc, tnow, localVars, outcome, lostRace, blocked,
                 lastWrite, rerun, ingested, calls>>

\* The timestamp a producer submits: the text of its clock's reading, as
\* new Date().toISOString() gives it (here <<minutes, seconds>>).
ToISOString(t) == <<t \div 60, t % 60>>

\* (a parse that keeps the minute of the text only)
NewDate_MinuteOnly(iso) == iso[1] * 60

\* new Date(logDto.timestamp): the instant the submitted text denotes.
NewDate(iso) == iso[1] * 60 + iso[2]

\* One call of processLog: the record it was given (level, and the timestamp
\* text of a producer that stamps the time ts of the call), how far the call
\* has come ("creating": log.create is issued and not answered; "returned":
\* the saved row was returned; "threw": the rejection was rethrown) and the
\* row created.
Call(level, ts, state, row) ==
  [level |-> level, ts |-> ts, timestamp |-> ToISOString(ts), state |-> state,
   row |-> row]

\* IngestionService.processLog whose log.create is answered at once and
\* succeeds: one log.create per call, with the producer's timestamp (the
\* current time).  At most limit calls are followed.
Ingest(level, limit) ==
  /\ ingested < limit
  /\ logs' = Append(logs, Log(NewDate(ToISOString(clock)), level))
  /\ ingested' = ingested + 1
  /\ calls' = Append(calls, Call(level, clock, "returned", Len(logs) + 1))
  /\ lastWrite' = "ingest"
  /\ rerun' = {}
  /\ UNCHANGED <<clock, horizon, cronLock, incidents, pc, tnow, localVars, outcome,
                 lostRace, blocked>>

ProcessLog(level) == Ingest(level, MaxIngest)

Next ==
  \/ \E i \in Inst :
       \/ StartTick(i)
       \/ FindLock(i)
       \/ DeleteStale(i)
       \/ CreateLock(i)
       \/ Baseline(i)
       \/ Count(i)
       \/ CreateIncident(i)
       \/ Correlate(i)
       \/ Release(i)
       \/ Crash(i)
  \/ Tick
  \/ \E level \in {"ERROR", "INFO"} : ProcessLog(level)

Spec == Init /\ [][Next]_vars

\* The detection engine alone, over MaxPeriods further timer periods, on a
\* table that holds an error burst (after some history of errors, or as the
\* first errors of the service) and receives no record meanwhile.
InitLease ==
  /\ clock = T0
  /\ horizon = T0 + MaxSkew + CRON_PERIOD * MaxPeriods
  /\ cronLock = NoLock
  /\ logs \in {BurstStore, ColdBurstStore}
  /\ incidents = <<>>
  /\ pc = [i \in Inst |-> "idle"]
  /\ tnow = [i \in Inst |-> Never]
  /\ existingLock = [i \in Inst |-> NoLock]
  /\ stats = [i \in Inst |-> NoStats]
  /\ oneMinuteAgo = [i \in Inst |-> Never]
  /\ currentErrorCount = [i \in Inst |-> 0]
  /\ counted = [i \in Inst |-> {}]
  /\ seen = [i \in Inst |-> 0]
  /\ severity = [i \in Inst |-> "none"]
  /\ incident = [i \in Inst |-> NULL]
  /\ thrown = [i \in Inst |-> FALSE]
  /\ outcome = [i \in Inst |-> "none"]
  /\ lostRace = [i \in Inst |-> FALSE]
  /\ blocked = [i \in Inst |-> [row |-> NoLock, at |-> Never, delay |-> 0]]
  /\ lastWrite = "none"
  /\ rerun = {}
  /\ ingested = 0
  /\ calls = <<>>

NextLease ==
  \/ \E i \in Inst :
       \/ StartTick(i)
       \/ FindLock(i)
       \/ DeleteStale(i)
       \/ CreateLock(i)
       \/ Baseline(i)
       \/ Count(i)
       \/ CreateIncident(i)
       \/ Correlate(i)
       \/ Release(i)
       \/ Crash(i)
  \/ Tick

SpecLease == InitLease /\ [][NextLease]_vars

\* One tick of one instance followed from its start to its end, on a drawn
\* table whose history lies before the measurement window, while a burst of up
\* to MaxBurst ERROR records is ingested.  The slot's previous tick was one
\* period earlier.
InitScore ==
  /\ clock = T0 + WINDOW_SECONDS
  /\ horizon = T0 + WINDOW_SECONDS
  /\ cronLock = NoLock
  /\ logs \in HistoryStores
  /\ incidents = <<>>
  /\ pc = [i \in Inst |-> "idle"]
  /\ tnow = [i \in Inst |-> IF i = 1 THEN T0 + WINDOW_SECONDS - CRON_PERIOD ELSE Never]
  /\ existingLock = [i \in Inst |-> NoLock]
  /\ stats = [i \in Inst |-> NoStats]
  /\ oneMinuteAgo = [i \in Inst |-> Never]
  /\ currentErrorCount = [i \in Inst |-> 0]
  /\ counted = [i \in Inst |-> {}]
  /\ seen = [i \in Inst |-> 0]
  /\ severity = [i \in Inst |-> "none"]
  /\ incident = [i \in Inst |-> NULL]
  /\ thrown = [i \in Inst |-> FALSE]
  /\ outcome = [i \in Inst |-> "none"]
  /\ lostRace = [i \in Inst |-> FALSE]
  /\ blocked = [i \in Inst |-> [row |-> NoLock, at |-> Never, delay |-> 0]]
  /\ lastWrite = "none"
  /\ rerun = {}
  /\ ingested = 0
  /\ calls = <<>>

IngestBurst == Ingest("ERROR", MaxBurst)

NextScore ==
  \/ StartTick(1)
  \/ FindLock(1)
  \/ CreateLock(1)
  \/ Baseline(1)
  \/ Count(1)
  \/ CreateIncident(1)
  \/ Correlate(1)
  \/ Release(1)
  \/ IngestBurst

SpecScore == InitScore /\ [][NextScore]_vars

\* One tick of one instance on a table that holds an ERROR record in the first
\* and in the last second of each of its first minutes minutes (producers
\* stamp their records themselves: the stamps need not lie before the tick).
MinuteStore(minutes) ==
  [k \in 1..(2 * minutes) |->
     Log(60 * ((k - 1) \div 2) + (IF k % 2 = 1 THEN 0 ELSE 59), "ERROR")]

InitWindow ==
  /\ clock \in {60 * (BASELINE_WINDOW_MINUTES + d) + o : d \in 0..1, o \in {0, 30, 50}}
  /\ horizon = clock
  /\ cronLock = NoLock
  /\ logs \in {MinuteStore(m) : m \in (MaxMinutes - 2)..MaxMinutes}
  /\ incidents = <<>>
  /\ pc = [i \in Inst |-> "idle"]
  /\ tnow = [i \in Inst |-> IF i = 1 THEN clock - CRON_PERIOD ELSE Never]
  /\ existingLock = [i \in Inst |-> NoLock]
  /\ stats = [i \in Inst |-> NoStats]
  /\ oneMinuteAgo = [i \in Inst |-> Never]
  /\ currentErrorCount = [i \in Inst |-> 0]
  /\ counted = [i \in Inst |-> {}]
  /\ seen = [i \in Inst |-> 0]
  /\ severity = [i \in Inst |-> "none"]
  /\ incident = [i \in Inst |-> NULL]
  /\ thrown = [i \in Inst |-> FALSE]
  /\ outcome = [i \in Inst |-> "none"]
  /\ lostRace = [i \in Inst |-> FALSE]
  /\ blocked = [i \in Inst |-> [row |-> NoLock, at |-> Never, delay |-> 0]]
  /\ lastWrite = "none"
  /\ rerun = {}
  /\ ingested = 0
  /\ calls = <<>>

NextWindow ==
  \/ StartTick(1)
  \/ FindLock(1)
  \/ CreateLock(1)
  \/ Baseline(1)
  \/ Count(1)
  \/ CreateIncident(1)
  \/ Correlate(1)
  \/ Release(1)

SpecWindow == InitWindow /\ [][NextWindow]_vars

\* ------------------------------------------------------ ingestion, step by step
\* processLog has one await (log.create): a call is a step that issues the
\* create, and a later step at which the store answers and the call ends.
\* Calls of concurrent requests are answered in any order.

\* processLog up to its await: log.create is issued for the record.
EnterProcessLog(level) ==
  /\ Len(calls) < MaxSubmit
  /\ calls' = Append(calls, Call(level, clock, "creating", 0))
  /\ ingested' = ingested + 1
  /\ UNCHANGED <<clock, horizon, storeVars, pc, tnow, localVars, outcome, lostRace,
                 blocked, lastWrite, rerun>>

\* The store answers the create of call n: the row is stored and returned to
\* the producer, or the rejection is logged and rethrown to the producer.
AnswerCreate(n) ==
  /\ n \in DOMAIN calls
  /\ calls[n].state = "creating"
  /\ \E up \in BOOLEAN :
       IF up
         THEN /\ logs' = Append(logs, Log(NewDate(calls[n].timestamp), calls[n].level))
              /\ calls' = [calls EXCEPT ![n].state = "returned", ![n].row = Len(logs) + 1]
              /\ lastWrite' = "ingest"
              /\ rerun' = {}
         ELSE /\ calls' = [calls EXCEPT ![n].state = "threw"]
              /\ UNCHANGED <<logs, lastWrite, rerun>>
  /\ UNCHANGED <<clock, horizon, cronLock, incidents, pc, tnow, localVars, outcome,
                 lostRace, blocked, ingested>>

\* A second passes between two requests.
Elapse ==
  /\ clock < horizon
  /\ clock' = clock + 1
  /\ UNCHANGED <<horizon, storeVars, pc, tnow, localVars, outcome, lostRace, blocked,
                 lastWrite, rerun, ingested, calls>>

\* The ingestion service alone, started at T0 on an empty table.
InitIngest ==
  /\ clock = T0
  /\ horizon = T0 + MaxSeconds
  /\ cronLock = NoLock
  /\ logs = <<>>
  /\ incidents = <<>>
  /\ pc = [i \in Inst |-> "idle"]
  /\ tnow = [i \in Inst |-> Never]
  /\ existingLock = [i \in Inst |-> NoLock]
  /\ stats = [i \in Inst |-> NoStats]
  /\ oneMinuteAgo = [i \in Inst |-> Never]
  /\ currentErrorCount = [i \in Inst |-> 0]
  /\ counted = [i \in Inst |-> {}]
  /\ seen = [i \in Inst |-> 0]
  /\ severity = [i \in Inst |-> "none"]
  /\ incident = [i \in Inst |-> NULL]
  /\ thrown = [i \in Inst |-> FALSE]
  /\ outcome = [i \in Inst |-> "none"]
  /\ lostRace = [i \in Inst |-> FALSE]
  /\ blocked = [i \in Inst |-> [row |-> NoLock, at |-> Never, delay |-> 0]]
  /\ lastWrite = "none"
  /\ rerun = {}
  /\ ingested = 0
  /\ calls = <<>>

NextIngest ==
  \/ \E level \in {"ERROR", "INFO"} : EnterProcessLog(level)
  \/ \E n \in 1..MaxSubmit : AnswerCreate(n)
  \/ Elapse

SpecIngest == InitIngest /\ [][NextIngest]_vars

\* The calls whose create is issued and not answered: their records are held
\* by the service and are not in the table.
Pending == {n \in DOMAIN calls : calls[n].state = "creating"}

\* log.create calls issued so far: one by every call of processLog.
WriteCalls == Len(calls)

\* Call n ends in this step, returning to the producer.
Returns(n) ==
  /\ n \in DOMAIN calls'
  /\ calls'[n].state = "returned"
  /\ (n \in DOMAIN calls => calls[n].state = "creating")

\* The log.create call that carries the record of call n: the call's own.
WriteOf(n) == n

\* The records one log.create call carries.
BatchOf(w) == {n \in DOMAIN calls : WriteOf(n) = w}

\* When write call w was issued, and when the write call before it was (the
\* service started at T0).
IssuedAt(w) == calls[w].ts
PreviousWrite(w) == IF w = 1 THEN T0 ELSE IssuedAt(w - 1)

\* ==================================================================
\* Properties
\* ==================================================================
Period(t) == (t - T0) \div CRON_PERIOD

\* The slot's current tick holds the lease, or its last tick ran the pass to
\* its end.
RanPass(i) == pc[i] \in Holding \/ outcome[i] = "done"

\* No tick so far was ended by a rejected store operation or a crash.
NoFault ==
  \A i \in Inst :
    /\ ~thrown[i]
    /\ outcome[i] \notin {"find_rejected", "create_rejected", "pass_rejected", "crashed"}

\* The step is one of slot i.
Steps(i) == pc'[i] # pc[i]

\* C1: in every reachable state at most one invocation of runDetection is in
\* progress, over all instances.
C1_MutualExclusion ==
  Cardinality({i \in Inst : pc[i] \in Running}) <= 1

\* C2: of the ticks that read the same expired lease row and each delete and
\* re-create it, never two hold the lease together.
C2_ReclaimOneWinner ==
  \A i, j \in Inst :
    (i # j /\ existingLock[i] # NoLock /\ existingLock[i] = existingLock[j])
      => ~(pc[i] \in Holding /\ pc[j] \in Holding)

C4_NoTakeoverBeforeExpiry ==
  [][(cronLock # NoLock /\ cronLock.expiry > clock /\ cronLock' # cronLock) =>
       \E i \in Inst :
         /\ i = cronLock.owner /\ tnow[i] = cronLock.lockedAt
         /\ pc[i] = "release" /\ pc'[i] = "idle"]_vars

\* C5: a tick that created the lease row ends only through the release step
\* (the delete of the finally block), whether the pass returned normally,
\* returned at the warm-up guard, or rejected at any of its store operations.
C5_AlwaysRelease ==
  [][\A i \in Inst :
       (pc[i] \in Holding /\ pc'[i] = "idle") =>
         /\ pc[i] = "release"
         /\ cronLock' \in {NoLock, cronLock}]_vars

C5_Witness ==
  \E i \in Inst :
    pc[i] = "idle" /\ outcome[i] = "pass_rejected" /\ cronLock = NoLock

\* C6: of the ticks of different instances that fall in the same timer period,
\* at most one runs the detection pass.
C6_OnePassPerPeriod ==
  \A i, j \in Inst :
    (i # j /\ RanPass(i) /\ RanPass(j)) => Period(tnow[i]) # Period(tnow[j])

\* C7: a tick whose lookup returns a lease row with expiry later than the
\* tick's time ends at once with a normal return, and changes neither the
\* lease row, nor a log record, nor the incidents.
C7_ContentionSkips ==
  [][\A i \in Inst :
       (/\ pc[i] = "find" /\ Steps(i) /\ outcome'[i] # "find_rejected"
        /\ cronLock # NoLock /\ cronLock.expiry > tnow[i]) =>
         /\ pc'[i] = "idle" /\ outcome'[i] = "skipped"
         /\ UNCHANGED storeVars]_vars

C7_Witness ==
  \E i \in Inst :
    /\ pc[i] = "idle" /\ outcome[i] = "skipped"
    /\ cronLock # NoLock /\ blocked[i].row = cronLock /\ blocked[i].at = tnow[i]

\* The tick of slot i that is at its lookup follows, one period later, a tick
\* that skipped because of the row now present, whose holder has crashed.
SecondLookAtCrashedLease(i) ==
  /\ pc[i] = "find"
  /\ cronLock # NoLock /\ blocked[i].row = cronLock
  /\ blocked[i].at + CRON_PERIOD = tnow[i]
  /\ cronLock.owner \in Inst /\ pc[cronLock.owner] = "crashed"

\* C8 (as claimed): the tick that follows a tick skipped because of a crashed
\* holder's lease finds that lease expired.
C8_SkipsAtMostOnce ==
  [][\A i \in Inst :
       (SecondLookAtCrashedLease(i) /\ Steps(i) /\ outcome'[i] # "find_rejected")
         => pc'[i] = "delstale"]_vars

\* C8 (amended): the same, for a skipped tick whose lookup ran no later than one
\* second (period minus lease duration) after the tick's start.
C8_SkipsAtMostOnceIfPrompt ==
  [][\A i \in Inst :
       (/\ SecondLookAtCrashedLease(i) /\ blocked[i].delay <= CRON_PERIOD - LEASE_SECONDS
        /\ Steps(i) /\ outcome'[i] # "find_rejected")
         => pc'[i] = "delstale"]_vars

C8_Witness ==
  \E i \in Inst :
    /\ pc[i] = "delstale" /\ existingLock[i] = cronLock
    /\ blocked[i].row = cronLock /\ blocked[i].at + CRON_PERIOD = tnow[i]
    /\ blocked[i].delay = CRON_PERIOD - LEASE_SECONDS
    /\ cronLock.owner \in Inst /\ pc[cronLock.owner] = "crashed"

\* C9: no record is counted in the measurements of two ticks that both create
\* an incident (stated for ticks that both went on to execute their
\* correlating update).
C9_OneIncidentPerEpisode ==
  \A a, b \in DOMAIN incidents :
    (a # b /\ incidents[a].applied /\ incidents[b].applied)
      => incidents[a].counted \cap incidents[b].counted = {}

\* C10: a tick begun after a correlating update was applied, with no record
\* written since, creates no incident and changes no record.
C10_RerunIdempotent ==
  [][\A i \in rerun :
       Steps(i) => /\ pc'[i] \notin {"mkincident", "correlate"}
                   /\ logs' = logs /\ incidents' = incidents]_vars

C10_Witness ==
  \E i \in rerun :
    /\ pc[i] = "release" /\ ~thrown[i] /\ stats[i] # NoStats
    /\ currentErrorCount[i] = 0 /\ Len(incidents) >= 1

\* The step is one of slot i's operations that the store answered.
Answered(i) == Steps(i) /\ pc'[i] # "crashed" /\ ~thrown'[i]

\* C11: a record's incident_id, once non-null, never changes again.
C11_CorrelationSetOnce ==
  [][\A k \in DOMAIN logs :
       logs[k].incident_id # NULL =>
         /\ k \in DOMAIN logs'
         /\ logs'[k].incident_id = logs[k].incident_id]_vars

C11_Witness ==
  /\ Len(incidents) >= 2
  /\ \A a \in DOMAIN incidents : incidents[a].applied
  /\ \E k \in DOMAIN logs : logs[k].incident_id = 1

\* C12: every incident is followed by its tick's correlating update: once the
\* creating tick is past that update (and its process did not die), the
\* update was applied.
C12_NoPartialIncident ==
  \A a \in DOMAIN incidents :
    LET i == incidents[a].by IN
      \/ incidents[a].applied
      \/ outcome[i] = "crashed"
      \/ pc[i] = "correlate" /\ incident[i] = a

\* C13: no tick ends with handleCron rejecting.
C13_ErrorsContained ==
  \A i \in Inst : outcome[i] \notin {"find_rejected", "pass_rejected"}

\* C14: when the baseline query returns fewer than MIN_BASELINE_BUCKETS
\* buckets the pass ends at once, and writes neither an incident nor a log
\* record.
C14_WarmUpWritesNothing ==
  [][\A i \in Inst :
       (/\ pc[i] = "baseline" /\ Answered(i)
        /\ Cardinality(DOMAIN BaselineMetrics(clock)) < MIN_BASELINE_BUCKETS) =>
         /\ pc'[i] = "release"
         /\ UNCHANGED <<logs, incidents>>]_vars

C14_Witness ==
  \E i \in Inst :
    /\ pc[i] = "release" /\ ~thrown[i] /\ stats[i] = NoStats
    /\ Cardinality(DOMAIN BaselineMetrics(clock)) < MIN_BASELINE_BUCKETS
    /\ Cardinality(WindowFilter(clock - WINDOW_SECONDS)) > MIN_ERROR_COUNT
    /\ incidents = <<>>

\* C15: a tick whose count was answered goes on to create an incident if and
\* only if its score exceeds Z_SCORE_THRESHOLD and the measured count of
\* uncorrelated ERROR records of the last 60 seconds exceeds MIN_ERROR_COUNT;
\* otherwise the pass ends there.
C15_DualThreshold ==
  [][\A i \in Inst :
       (pc[i] = "count" /\ Answered(i)) =>
         LET c == Cardinality(WindowFilter(oneMinuteAgo[i])) IN
           /\ currentErrorCount'[i] = c
           /\ pc'[i] \in {"mkincident", "release"}
           /\ pc'[i] = "mkincident" <=>
                (ZScoreAbove(stats[i], c, Z_SCORE_THRESHOLD) /\ c > MIN_ERROR_COUNT)]_vars

\* The noise guard: a score above the threshold with a count of 5 or less.
C15_Witness ==
  \E i \in Inst :
    /\ pc[i] = "release" /\ ~thrown[i] /\ stats[i] # NoStats
    /\ currentErrorCount[i] > 0 /\ currentErrorCount[i] <= MIN_ERROR_COUNT
    /\ ZScoreAbove(stats[i], currentErrorCount[i], Z_SCORE_THRESHOLD)
    /\ incidents = <<>>

\* C16: every incident has a score above Z_SCORE_THRESHOLD, and severity
\* CRITICAL when the score exceeds 5, HIGH when it does not.
C16_SeverityMapping ==
  \A a \in DOMAIN incidents :
    LET r == incidents[a] IN
      /\ r.severity \in {"HIGH", "CRITICAL"}
      /\ ZScoreAbove(r.stats, r.count, Z_SCORE_THRESHOLD)
      /\ r.severity = "CRITICAL" <=> ZScoreAbove(r.stats, r.count, CRITICAL_Z)
      /\ r.severity = "HIGH" <=> ~ZScoreAbove(r.stats, r.count, CRITICAL_Z)

C16_Witness ==
  \E a \in DOMAIN incidents :
    /\ incidents[a].severity = "HIGH"
    /\ incidents[a].stats.n * incidents[a].stats.Q # incidents[a].stats.S * incidents[a].stats.S

\* The score of the specification, decided exactly from the bucket counts:
\* with n values of sum S, mean = S / n and (population) variance =
\* Dev / n^3 for Dev the sum of the (n * v - S)^2; so (c - mean) / sigma > k
\* exactly when n * c > S and n * (n * c - S)^2 > k^2 * Dev.
SumOfValues(values) == SumOver(values, DOMAIN values)

Dev(values) ==
  LET n == Cardinality(DOMAIN values)
      S == SumOfValues(values)
  IN SumOver([m \in DOMAIN values |-> (n * values[m] - S) * (n * values[m] - S)],
             DOMAIN values)

ExactZAbove(values, c, k) ==
  LET n == Cardinality(DOMAIN values)
      S == SumOfValues(values)
  IN n * c > S /\ n * (n * c - S) * (n * c - S) > k * k * Dev(values)

ExactZAtLeast(values, c, k) ==
  LET n == Cardinality(DOMAIN values)
      S == SumOfValues(values)
  IN n * c > S /\ n * (n * c - S) * (n * c - S) >= k * k * Dev(values)

\* The invocation holds a baseline of at least 5 buckets with non-zero spread.
HasSpread(i) == stats[i] # NoStats /\ Dev(stats[i].values) # 0

Flat(values) == \A m1, m2 \in DOMAIN values : values[m1] = values[m2]

\* C18: with sigma = 0 a tick whose count was answered creates an incident
\* exactly when the count exceeds the mean and MIN_ERROR_COUNT, and the
\* incident is CRITICAL.
C18_ColdStartSentinel ==
  [][\A i \in Inst :
       (pc[i] = "count" /\ Answered(i) /\ Flat(stats[i].values)) =>
         LET c == currentErrorCount'[i] IN
           /\ pc'[i] = "mkincident" <=>
                /\ \A m \in DOMAIN stats[i].values : c > stats[i].values[m]
                /\ c > MIN_ERROR_COUNT
           /\ pc'[i] = "mkincident" => severity'[i] = "CRITICAL"]_vars

C18_Witness ==
  \E a \in DOMAIN incidents :
    /\ Flat(incidents[a].stats.values)
    /\ incidents[a].count = MIN_ERROR_COUNT + 1
    /\ incidents[a].severity = "CRITICAL"

ErrorRecords == {k \in DOMAIN logs : logs[k].level = "ERROR"}

\* C19: when the only ERROR records of the table are a burst of more than
\* MIN_ERROR_COUNT records that arrived at T0, a tick that acquired the lease
\* within the next 60 seconds and ran its pass to the end, every store
\* operation answered, has created an OPEN incident.
C19_FirstBurstDetected ==
  \A i \in Inst :
    (/\ pc[i] = "idle" /\ outcome[i] = "done" /\ NoFault
     /\ ingested = 0
     /\ Cardinality(ErrorRecords) > MIN_ERROR_COUNT
     /\ \A k \in ErrorRecords : logs[k].ts = T0
     /\ tnow[i] - WINDOW_SECONDS <= T0)
      => \E a \in DOMAIN incidents : incidents[a].status = "OPEN"

\* C20: once every instance has ended a second tick, the later ticks having
\* started within 15 seconds of T0 and one of them having run its pass to the
\* end, there are not 6 ERROR records stamped T0 left uncorrelated without
\* an incident in the table.
C20_BurstGetsIncident ==
  (/\ NoFault
   /\ \A i \in Inst : pc[i] = "idle" /\ tnow[i] >= T0 + CRON_PERIOD
                      /\ tnow[i] <= T0 + CRON_PERIOD + CRON_PERIOD \div 2
   /\ \E i \in Inst : outcome[i] = "done"
   /\ Cardinality({k \in ErrorRecords : logs[k].ts = T0 /\ logs[k].incident_id = NULL})
        >= MIN_ERROR_COUNT + 1)
    => Len(incidents) >= 1

\* -------------------------------------------------------------- ingestion

\* C21: once no call of processLog is under way, every record that was
\* submitted is in table Log exactly once: the table holds one row per call,
\* and no two calls share a row.
C21_ExactlyOnce ==
  Pending = {} =>
    /\ Len(logs) = Len(calls)
    /\ \A n \in DOMAIN calls : calls[n].row \in DOMAIN logs
    /\ \A n, m \in DOMAIN calls : n # m => calls[n].row # calls[m].row

\* C22: processLog returns without waiting for persistence: the step at which
\* a call returns to the producer writes nothing to table Log.
C22_SubmitBuffers ==
  [][\A n \in 1..MaxSubmit : Returns(n) => UNCHANGED logs]_vars

\* C23: a write call is issued only when it carries BATCH_SIZE records or
\* when FLUSH_SECONDS have passed since the write call before it.
C23_FlushTrigger ==
  \A w \in 1..WriteCalls :
    \/ Cardinality(BatchOf(w)) = BATCH_SIZE
    \/ IssuedAt(w) - PreviousWrite(w) >= FLUSH_SECONDS

\* C24: fewer than BATCH_SIZE records submitted within the first FLUSH_SECONDS
\* of the service are written by one write call, however many they are.
C24_OneWritePerFlush ==
  \A n, m \in DOMAIN calls :
    (/\ Len(calls) < BATCH_SIZE
     /\ calls[n].ts < T0 + FLUSH_SECONDS
     /\ calls[m].ts < T0 + FLUSH_SECONDS)
      => WriteOf(n) = WriteOf(m)

\* C25: no submitted record is dropped: at every moment each record is in
\* table Log or is still held by the service for a write yet to be answered.
C25_FailedWriteRetained ==
  \A n \in DOMAIN calls : n \in Pending \/ calls[n].row \in DOMAIN logs

\* C26: the number of records accepted and not yet persisted never exceeds
\* the configured maximum MaxPending.
C26_BoundedCapacity ==
  Cardinality(Pending) <= MaxPending

\* C27: no call of processLog ends with an error thrown to the producer.
C27_NoProducerError ==
  \A n \in DOMAIN calls : calls[n].state # "threw"

\* C28: the baseline a pass computes has at most BASELINE_WINDOW_MINUTES
\* buckets.
C28_BaselineSizeBound ==
  \A i \in Inst : stats[i].n <= BASELINE_WINDOW_MINUTES

\* C29: the step at which the correlating update of a pass is executed sets
\* incident_id to the pass's incident on every ERROR record that had a null
\* incident_id and a timestamp at or after the pass's cutoff, and leaves no
\* uncorrelated ERROR record with a timestamp at or after that cutoff.
C29_CorrelationCoversWindow ==
  [][\A i \in Inst :
       (pc[i] = "correlate" /\ pc'[i] = "release" /\ ~thrown'[i]) =>
         /\ \A k \in DOMAIN logs :
              (/\ logs[k].level = "ERROR"
               /\ logs[k].incident_id = NULL
               /\ logs[k].ts >= oneMinuteAgo[i])
                => logs'[k].incident_id = incident[i]
         /\ \A k \in DOMAIN logs' :
              (logs'[k].level = "ERROR" /\ logs'[k].ts >= oneMinuteAgo[i])
                => logs'[k].incident_id # NULL]_vars

\* An executed update that covered more records than the pass had counted:
\* one arrived between the count and the update.
C29_Witness ==
  \E a \in DOMAIN incidents :
    /\ incidents[a].applied
    /\ Cardinality({k \in DOMAIN logs : logs[k].incident_id = a}) > incidents[a].count

\* The place of a step in handleCron: every step of a tick is followed by a
\* later one or by the end of the tick.
Order(p) ==
  CASE p = "find" -> 1
    [] p = "delstale" -> 2
    [] p = "create" -> 3
    [] p = "baseline" -> 4
    [] p = "count" -> 5
    [] p = "mkincident" -> 6
    [] p = "correlate" -> 7
    [] p = "release" -> 8
    [] OTHER -> 9

\* C30: a tick never goes back to an earlier step, so it makes at most one
\* lookup, one delete of a stale row and one creation attempt and ends after
\* at most eight store operations; the delete is followed by the creation
\* attempt, and a creation attempt that finds a lease row ends the tick
\* without running the pass.
C30_AcquisitionBounded ==
  [][\A i \in Inst :
       (Steps(i) /\ pc[i] \notin {"idle", "crashed"}) =>
         /\ Order(pc'[i]) > Order(pc[i])
         /\ pc[i] = "delstale" => pc'[i] = "create"
         /\ (pc[i] = "create" /\ cronLock # NoLock) =>
              (pc'[i] = "idle" /\ outcome'[i] \in {"conflict", "reclaim_conflict"})]_vars

\* A tick that deleted a stale row, made its one creation attempt, found a
\* rival's row and ended.
C30_Witness ==
  \E i \in Inst : pc[i] = "idle" /\ outcome[i] = "reclaim_conflict" /\ tnow[i] # Never

\* -------------------------------------------------------- frame conditions

\* C31: every step leaves the status, severity and resolved_at of every
\* incident as they were and deletes no incident, and an incident that the
\* step creates has status OPEN.
C31_IncidentsFrozen ==
  [][/\ Len(incidents') >= Len(incidents)
     /\ \A a \in DOMAIN incidents :
          /\ incidents'[a].status = incidents[a].status
          /\ incidents'[a].severity = incidents[a].severity
          /\ incidents'[a].resolved_at = incidents[a].resolved_at
     /\ \A a \in DOMAIN incidents' \ DOMAIN incidents :
          incidents'[a].status = "OPEN"]_vars

\* An incident whose tick has correlated its records and ended, while a later
\* tick is under way: the incident is still OPEN and unresolved.
C31_Witness ==
  \E a \in DOMAIN incidents : \E j \in Inst :
    /\ incidents[a].applied
    /\ incidents[a].status = "OPEN" /\ incidents[a].resolved_at = NULL
    /\ pc[incidents[a].by] = "idle"
    /\ j # incidents[a].by /\ pc[j] \in Holding

\* C32: every step keeps every stored record, with its timestamp and level;
\* a record's incident_id changes only in the step at which a tick's
\* correlating update is executed.
C32_OnlyIncidentIdMutable ==
  [][/\ Len(logs') >= Len(logs)
     /\ \A k \in DOMAIN logs :
          /\ logs'[k].ts = logs[k].ts
          /\ logs'[k].level = logs[k].level
          /\ logs'[k].incident_id # logs[k].incident_id =>
               \E i \in Inst : pc[i] = "correlate" /\ pc'[i] = "release" /\ ~thrown'[i]]_vars

\* A record that processLog stored and a tick then correlated: it carries an
\* incident id, and the timestamp and level it was submitted with.
C32_Witness ==
  \E n \in DOMAIN calls :
    /\ calls[n].row \in DOMAIN logs
    /\ logs[calls[n].row].incident_id # NULL
    /\ logs[calls[n].row].ts = calls[n].ts
    /\ logs[calls[n].row].level = calls[n].level

\* C33: fewer than BATCH_SIZE records accepted within the first FLUSH_SECONDS
\* of the service (one flush) are written to table Log in the order in which
\* their calls were accepted.
C33_ArrivalOrder ==
  \A n, m \in DOMAIN calls :
    (/\ n < m
     /\ Len(calls) < BATCH_SIZE
     /\ calls[m].ts < T0 + FLUSH_SECONDS
     /\ calls[n].state = "returned" /\ calls[m].state = "returned")
      => calls[n].row < calls[m].row

\* C34: the step at which a tick's release removes the lease row removes the
\* row that this tick created.
C34_ReleaseOwnRow ==
  [][\A i \in Inst :
       (/\ pc[i] = "release" /\ pc'[i] = "idle"
        /\ cronLock # NoLock /\ cronLock' = NoLock)
         => (cronLock.owner = i /\ cronLock.lockedAt = tnow[i])]_vars

\* The records correlated to incident a.
CorrelatedTo(a) == {k \in DOMAIN logs : logs[k].incident_id = a}

\* C35 (as claimed): the records correlated to an incident by its tick's
\* update are exactly the records the tick counted.
C35_CountedEqualsCorrelated ==
  \A a \in DOMAIN incidents :
    incidents[a].applied => CorrelatedTo(a) = incidents[a].counted

\* C35 (amended): every record correlated to an incident by its tick's update
\* was counted by the tick or was stored after the tick's count, and every
\* counted record is correlated to the incident or, by another tick's update
\* that came first, to another incident.
C35_CountedOrArrivedLater ==
  \A a \in DOMAIN incidents :
    incidents[a].applied =>
      /\ \A k \in CorrelatedTo(a) : k \in incidents[a].counted \/ k > incidents[a].seen
      /\ \A k \in incidents[a].counted : logs[k].incident_id # NULL

\* An incident whose update correlated a record that was stored after the
\* tick's count, next to the records counted.
C35_Witness ==
  \E a \in DOMAIN incidents : \E k \in CorrelatedTo(a) :
    /\ incidents[a].applied
    /\ k \notin incidents[a].counted /\ k > incidents[a].seen
    /\ incidents[a].counted \subseteq CorrelatedTo(a)

C37_OnlyWindowErrorsCorrelated ==
  [][\A k \in DOMAIN logs' :
       logs'[k].incident_id # NULL =>
         /\ k \in DOMAIN logs
         /\ logs[k].incident_id = NULL =>
              \E i \in Inst :
                /\ pc[i] = "correlate" /\ pc'[i] = "release"
                /\ logs[k].level = "ERROR"
                /\ logs[k].ts >= tnow[i] - WINDOW_SECONDS]_vars

\* An executed update next to a record of another level that was in the
\* table, with a timestamp inside the window, when the tick counted: that
\* record is still uncorrelated.
C37_Witness ==
  \E a \in DOMAIN incidents : \E k, l \in DOMAIN logs :
    /\ incidents[a].applied
    /\ logs[k].incident_id = a
    /\ logs[l].level # "ERROR" /\ logs[l].incident_id = NULL
    /\ l <= incidents[a].seen /\ logs[l].ts >= logs[k].ts

\* Call n ends in this step, rethrowing the store's rejection.
Throws(n) ==
  /\ n \in DOMAIN calls
  /\ calls[n].state = "creating"
  /\ calls'[n].state = "threw"

====
